---- MODULE Spec2Model ----
(***************************************************************************)
(* Model of the k6 load script scripts/load.js (chaos-leave).              *)
(*                                                                         *)
(* The script exports `options` (vus, duration), resolved from the         *)
(* environment when the module is loaded, and a default function that the  *)
(* k6 runtime calls repeatedly in every virtual user: it reads URL, builds *)
(* the chaos string from CHAOS or from LAT/ERR/CPU, builds the request     *)
(* URL, calls http.get and sleeps one second.                              *)
(*                                                                         *)
(* JavaScript values are records tagged by type.  A string is a sequence   *)
(* of one-character strings, so that joining, URL-encoding and decoding    *)
(* are computed character by character as the runtime computes them.       *)
(***************************************************************************)
EXTENDS Integers, Sequences, FiniteSets

\* ------------------------------------------------------------------ bounds
\* Virtual-user contexts the model tracks (the script's default is 150).
MaxVUs == 2
\* Iterations each virtual user may start before the model stops counting.
MaxIter == 2
\* Longest LAT / ERR / CPU / CHAOS value drawn in SpecAssemble.
MaxPartLen == 1
\* Longest CHAOS value drawn in SpecEncode.
MaxChaosLen == 2
\* Longest USERS value drawn in SpecConfig.
MaxUsersLen == 2

\* -------------------------------------------------------- program constants
\* load.js:5   Number(__ENV.USERS || 150)
DefaultUsers == 150
\* load.js:27  sleep(1)
PacingSeconds == 1

\* ------------------------------------------------- decimal digit sequences
\* A natural number of any size is the sequence of its decimal digits
\* (integers 0..9), most significant first, without leading zeros; zero is
\* the empty sequence.
RECURSIVE NatDigits(_)
NatDigits(n) == IF n = 0 THEN << >> ELSE Append(NatDigits(n \div 10), n % 10)

\* The value of at most nine digits.
RECURSIVE DecimalValue(_, _)
DecimalValue(ds, acc) ==
    IF ds = << >> THEN acc ELSE DecimalValue(Tail(ds), 10 * acc + Head(ds))

Zeros(n) == [i \in 1..n |-> 0]

StripZerosLeft(ds) ==
    IF \A i \in 1..Len(ds) : ds[i] = 0 THEN << >>
    ELSE SubSeq(ds, CHOOSE i \in 1..Len(ds) :
                        ds[i] # 0 /\ \A j \in 1..(i - 1) : ds[j] = 0,
                Len(ds))

StripZerosRight(ds) ==
    IF \A i \in 1..Len(ds) : ds[i] = 0 THEN << >>
    ELSE SubSeq(ds, 1, CHOOSE i \in 1..Len(ds) :
                           ds[i] # 0 /\ \A j \in (i + 1)..Len(ds) : ds[j] = 0)

\* a < b, for digit sequences without leading zeros.
DigitsLess(a, b) ==
    \/ Len(a) < Len(b)
    \/ /\ Len(a) = Len(b)
       /\ \E i \in 1..Len(a) : a[i] < b[i] /\ \A j \in 1..(i - 1) : a[j] = b[j]

\* The digits of a + b.  The carry into a place is 1 when some place to its
\* right sums to 10 or more and every place between sums to 9.
AddDigits(a, b) ==
    LET n == IF Len(a) < Len(b) THEN Len(b) ELSE Len(a)
        S(i) == (IF i > n - Len(a) THEN a[i - (n - Len(a))] ELSE 0)
                + (IF i > n - Len(b) THEN b[i - (n - Len(b))] ELSE 0)
        Carry(i) == IF \E j \in (i + 1)..n :
                          S(j) >= 10 /\ \A k \in (i + 1)..(j - 1) : S(k) = 9
                    THEN 1 ELSE 0
    IN  StripZerosLeft([i \in 1..(n + 1) |->
                           IF i = 1 THEN Carry(0)
                           ELSE (S(i - 1) + Carry(i - 1)) % 10])

\* The digits of 2 * ds, one more than ds has: twice a digit plus the carry
\* of the digit to its right, which is 1 when that digit is 5 or more.
Double(ds) ==
    [i \in 1..(Len(ds) + 1) |->
        ((IF i = 1 THEN 0 ELSE 2 * ds[i - 1])
         + (IF i <= Len(ds) /\ ds[i] >= 5 THEN 1 ELSE 0)) % 10]

\* The digits of ds / 2, the last of them after the point: half of a digit
\* and of the 10 that an odd digit to its left carries down.
Halve(ds) ==
    [i \in 1..(Len(ds) + 1) |->
        ((IF i <= Len(ds) THEN ds[i] ELSE 0)
         + (IF i > 1 /\ ds[i - 1] % 2 = 1 THEN 10 ELSE 0)) \div 2]

\* A non-negative decimal: the digits before and after the point.
Fix(w, f) == [w |-> StripZerosLeft(w), f |-> StripZerosRight(f)]
IsZero(x) == x.w = << >> /\ x.f = << >>

DoubleFix(x) ==
    LET d == Double(x.w \o x.f)
    IN  Fix(SubSeq(d, 1, Len(x.w) + 1), SubSeq(d, Len(x.w) + 2, Len(d)))

HalveFix(x) ==
    LET d == Halve(x.w \o x.f)
    IN  Fix(SubSeq(d, 1, Len(x.w)), SubSeq(d, Len(x.w) + 1, Len(d)))

\* x * 2^k, exactly, k of either sign: k doublings or -k halvings.
RECURSIVE ScaleFix(_, _)
ScaleFix(x, k) ==
    IF k = 0 \/ IsZero(x) THEN x
    ELSE IF k = 1 THEN DoubleFix(x)
    ELSE IF k = -1 THEN HalveFix(x)
    ELSE ScaleFix(ScaleFix(x, k \div 2), k - (k \div 2))

\* --------------------------------------------------------------- JS values
Undefined == [t |-> "undefined"]
Str(s) == [t |-> "string", s |-> s]

\* A number is NaN, an infinity or finite.  A finite number is a double, held
\* as its sign and its exact decimal expansion (every double has a finite
\* one): the digits of the whole part and the digits after the point, so that
\* 150 is (FALSE, <<1, 5, 0>>, <<>>), 1.5 is (FALSE, <<1>>, <<5>>) and -0 is
\* (TRUE, <<>>, <<>>).
Finite(neg, int, frac) ==
    [t |-> "number", k |-> "finite", neg |-> neg, int |-> int, frac |-> frac]
NaN == [t |-> "number", k |-> "NaN", neg |-> FALSE, int |-> << >>, frac |-> << >>]
Infinity(neg) ==
    [t |-> "number", k |-> "Infinity", neg |-> neg, int |-> << >>, frac |-> << >>]
\* The number written as the integer n (a numeric literal of the script).
Num(n) == Finite(n < 0, NatDigits(IF n < 0 THEN 0 - n ELSE n), << >>)

\* typeof v === 'string', typeof v === 'number' (NaN is a number)
IsStr(v) == v.t = "string"
IsNum(v) == v.t = "number"

\* Number.isInteger(v); v > 0; and the integer an integer below 10^9 is.
IsInteger(v) == IsNum(v) /\ v.k = "finite" /\ v.frac = << >>
IsPositive(v) ==
    IsNum(v) /\ ~v.neg /\ (v.k = "Infinity" \/ (v.k = "finite" /\ v.int \o v.frac # << >>))
IntValue(v) == IF v.neg THEN 0 - DecimalValue(v.int, 0) ELSE DecimalValue(v.int, 0)

\* a === b on numbers: NaN equals nothing, -0 equals 0.
NumEq(a, b) ==
    /\ IsNum(a) /\ IsNum(b)
    /\ a.k # "NaN" /\ b.k = a.k
    /\ a.int = b.int /\ a.frac = b.frac
    /\ (a.neg = b.neg \/ (a.k = "finite" /\ a.int = << >> /\ a.frac = << >>))

\* ToBoolean: undefined, NaN, 0, -0 and the empty string are falsy.
Truthy(v) ==
    CASE v.t = "undefined" -> FALSE
      [] v.t = "number" ->
            /\ v.k # "NaN"
            /\ (v.k = "finite" => (v.int # << >> \/ v.frac # << >>))
      [] v.t = "string" -> v.s # << >>

\* a || b
Or(a, b) == IF Truthy(a) THEN a ELSE b

\* String literals of the script, as character sequences.
S_undefined == <<"u", "n", "d", "e", "f", "i", "n", "e", "d">>
S_lat == <<"l", "a", "t">>
S_err == <<"e", "r", "r">>
S_cpu == <<"c", "p", "u">>
S_3m == <<"3", "m">>
S_60s == <<"6", "0", "s">>
S_chaosParam == <<"?", "c", "h", "a", "o", "s", "=">>

\* ${v} inside a template literal: ToString of an undefined or string value.
TemplateStr(v) == IF v.t = "undefined" THEN S_undefined ELSE v.s

\* ------------------------------------------------- rounding to a double
\* 2^52 and 2^53: the significand m of a normal double is 2^52 <= m < 2^53.
TwoTo52 == ScaleFix(Fix(<<1>>, << >>), 52).w
TwoTo53 == ScaleFix(Fix(<<1>>, << >>), 53).w

\* The exponent q of the unit in the last place, 2^q, of the double format
\* at the value t * 2^q: t is halved while it has more than 53 bits and
\* doubled while it has fewer, within the exponents the format has (-1074,
\* below which the doubles are subnormal, to 971).
RECURSIVE Normal(_, _)
Normal(t, q) ==
    IF q < 971 /\ ~DigitsLess(t.w, TwoTo53) THEN Normal(HalveFix(t), q + 1)
    ELSE IF q > -1074 /\ DigitsLess(t.w, TwoTo52) THEN Normal(DoubleFix(t), q - 1)
    ELSE [t |-> t, q |-> q]

\* t rounded to an integer, a tie to the even one.
RoundHalfEven(t) ==
    IF t.f = << >> THEN t.w
    ELSE IF \/ t.f[1] > 5
            \/ /\ t.f[1] = 5
               /\ (Len(t.f) > 1 \/ (t.w # << >> /\ t.w[Len(t.w)] % 2 = 1))
         THEN AddDigits(t.w, <<1>>)
         ELSE t.w

\* The double nearest to the decimal x > 0 whose whole part has n digits
\* (n <= 0: -n zeros follow the point), ties to even; an infinity when that
\* is 2^1024 or more.  The first exponent tried is an estimate, 10^(n-1)
\* being about 2^(3.3219 (n-1)).
RoundToDouble(neg, x, n) ==
    LET est == (((n - 1) * 33219) \div 10000) - 52
        q0 == IF est > 971 THEN 971 ELSE IF est < -1074 THEN -1074 ELSE est
        nq == Normal(ScaleFix(x, 0 - q0), q0)
        m == RoundHalfEven(nq.t)
    IN  IF ~DigitsLess(nq.t.w, TwoTo53) \/ (nq.q = 971 /\ m = TwoTo53)
        THEN Infinity(neg)
        ELSE LET r == ScaleFix(Fix(m, << >>), nq.q)
             IN  Finite(neg, r.w, r.f)

\* The number nearest to the decimal whose digits are ds with the point
\* after the first p of them (p may be negative or beyond the end).  A value
\* of 10^309 or more is beyond every double, one below 10^-324 is below
\* half of the least of them.
Scaled(neg, ds, p) ==
    LET sig == StripZerosRight(StripZerosLeft(ds))
        n == p - (Len(ds) - Len(StripZerosLeft(ds)))
    IN  IF sig = << >> THEN Finite(neg, << >>, << >>)
        ELSE IF n >= 310 THEN Infinity(neg)
        ELSE IF n <= -324 THEN Finite(neg, << >>, << >>)
        ELSE IF n <= 0 THEN RoundToDouble(neg, Fix(<< >>, Zeros(0 - n) \o sig), n)
        ELSE IF n >= Len(sig)
             THEN RoundToDouble(neg, Fix(sig \o Zeros(n - Len(sig)), << >>), n)
        ELSE RoundToDouble(neg, Fix(SubSeq(sig, 1, n), SubSeq(sig, n + 1, Len(sig))), n)

\* ------------------------------------------------------------ Number(...)
Digits == <<"0", "1", "2", "3", "4", "5", "6", "7", "8", "9">>
IsDigit(c) == \E i \in 1..10 : Digits[i] = c
DigitVal(c) == (CHOOSE i \in 1..10 : Digits[i] = c) - 1

AllDigits(s) == \A i \in 1..Len(s) : IsDigit(s[i])
DigitVals(s) == [i \in 1..Len(s) |-> DigitVal(s[i])]

\* StrWhiteSpaceChar: tab, line feed, form feed, carriage return, blank, and
\* the characters that cannot be written in a string of this language, by
\* name: vertical tab, no-break space, byte order mark, line and paragraph
\* separator, and USP for any other space separator.
WhiteSpace == {" ", "\t", "\n", "\f", "\r", "VT", "NBSP", "BOM", "LS", "PS", "USP"}

TrimLeft(s) ==
    IF \A i \in 1..Len(s) : s[i] \in WhiteSpace THEN << >>
    ELSE SubSeq(s, CHOOSE i \in 1..Len(s) :
                       s[i] \notin WhiteSpace /\ \A j \in 1..(i - 1) : s[j] \in WhiteSpace,
                Len(s))

TrimRight(s) ==
    IF \A i \in 1..Len(s) : s[i] \in WhiteSpace THEN << >>
    ELSE SubSeq(s, 1, CHOOSE i \in 1..Len(s) :
                          s[i] \notin WhiteSpace /\ \A j \in (i + 1)..Len(s) : s[j] \in WhiteSpace)

\* Digits of a hex, octal or binary literal.
RadixDigits == <<"0", "1", "2", "3", "4", "5", "6", "7", "8", "9",
                 "a", "b", "c", "d", "e", "f">>
RadixUpper == <<"0", "1", "2", "3", "4", "5", "6", "7", "8", "9",
                "A", "B", "C", "D", "E", "F">>
IsRadixDigit(c, radix) == \E i \in 1..radix : RadixDigits[i] = c \/ RadixUpper[i] = c
RadixDigitVal(c) == (CHOOSE i \in 1..16 : RadixDigits[i] = c \/ RadixUpper[i] = c) - 1

\* The bits a digit of the radix stands for: 4, 3 or 1.
RadixBits(radix) == CASE radix = 16 -> 4 [] radix = 8 -> 3 [] radix = 2 -> 1

\* The decimal digits of the value of the radix digits lo..hi of s (the
\* value of the left half, times the radix for each digit of the right
\* half, plus the value of the right half).
RECURSIVE RadixValue(_, _, _, _)
RadixValue(s, lo, hi, radix) ==
    IF lo = hi THEN NatDigits(RadixDigitVal(s[lo]))
    ELSE LET mid == (lo + hi) \div 2
             high == RadixValue(s, lo, mid, radix)
             low == RadixValue(s, mid + 1, hi, radix)
         IN  AddDigits(ScaleFix(Fix(high, << >>), RadixBits(radix) * (hi - mid)).w, low)

\* 0x / 0o / 0b literal: the radix of its prefix, 0 when it has none.
PrefixRadix(s) ==
    IF Len(s) >= 2 /\ s[1] = "0"
    THEN CASE s[2] \in {"x", "X"} -> 16
           [] s[2] \in {"o", "O"} -> 8
           [] s[2] \in {"b", "B"} -> 2
           [] OTHER -> 0
    ELSE 0

\* Position of the first character of s that is in cs, 0 when there is none.
FirstOf(s, cs) ==
    IF \E i \in 1..Len(s) : s[i] \in cs
    THEN CHOOSE i \in 1..Len(s) : s[i] \in cs /\ \A j \in 1..(i - 1) : s[j] \notin cs
    ELSE 0

S_Infinity == <<"I", "n", "f", "i", "n", "i", "t", "y">>

\* The value of the digits of an exponent, 10^8 when it is that or more:
\* with it the value of a literal of fewer than 10^7 characters is beyond
\* every double, or below all of them, as it is with the exponent itself.
ExponentValue(exdig) ==
    LET d == StripZerosLeft(DigitVals(exdig))
    IN  IF Len(d) > 8 THEN 100000000 ELSE DecimalValue(d, 0)

\* StrUnsignedDecimalLiteral: Infinity, or digits with an optional fraction
\* and an optional exponent; at least one digit before the exponent.  Its
\* value is rounded to the nearest double.
UnsignedDecimal(neg, u) ==
    IF u = S_Infinity THEN Infinity(neg)
    ELSE LET e == FirstOf(u, {"e", "E"})
             mant == IF e = 0 THEN u ELSE SubSeq(u, 1, e - 1)
             expo == IF e = 0 THEN << >> ELSE SubSeq(u, e + 1, Len(u))
             exneg == expo # << >> /\ Head(expo) = "-"
             exdig == IF expo # << >> /\ Head(expo) \in {"-", "+"}
                      THEN Tail(expo) ELSE expo
             dot == FirstOf(mant, {"."})
             whole == IF dot = 0 THEN mant ELSE SubSeq(mant, 1, dot - 1)
             frac == IF dot = 0 THEN << >> ELSE SubSeq(mant, dot + 1, Len(mant))
             wellFormed ==
                /\ AllDigits(whole) /\ AllDigits(frac)
                /\ whole \o frac # << >>
                /\ e # 0 => (exdig # << >> /\ AllDigits(exdig))
             x == IF e = 0 THEN 0
                  ELSE IF exneg THEN 0 - ExponentValue(exdig)
                  ELSE ExponentValue(exdig)
         IN  IF wellFormed
             THEN Scaled(neg, DigitVals(whole \o frac), Len(whole) + x)
             ELSE NaN

\* StringToNumber: white space around the literal is dropped; the empty
\* string is 0; a 0x, 0o or 0b literal is its value and takes no sign; a
\* decimal literal may have a sign, a fraction and an exponent; anything else
\* is NaN.  The value of a literal is rounded to the nearest double.
StringToNumber(s0) ==
    LET s == TrimRight(TrimLeft(s0))
        radix == PrefixRadix(s)
        signed == s # << >> /\ Head(s) \in {"-", "+"}
    IN  IF s = << >> THEN Num(0)
        ELSE IF radix # 0
             THEN (IF Len(s) >= 3 /\ \A i \in 3..Len(s) : IsRadixDigit(s[i], radix)
                   THEN LET d == RadixValue(s, 3, Len(s), radix)
                        IN  Scaled(FALSE, d, Len(d))
                   ELSE NaN)
        ELSE UnsignedDecimal(signed /\ Head(s) = "-", IF signed THEN Tail(s) ELSE s)

\* Number(v)
ToNumber(v) ==
    CASE v.t = "number" -> v
      [] v.t = "undefined" -> NaN
      [] v.t = "string" -> StringToNumber(v.s)

\* ------------------------------------------------------------- options
\* export const options = { vus: Number(__ENV.USERS || 150),
\*                          duration: __ENV.DUR || '3m' }
Options(e) ==
    [vus |-> ToNumber(Or(e.USERS, Num(DefaultUsers))),
     duration |-> Or(e.DUR, Str(S_3m))]

\* ------------------------------------------------------ chaos assembly
\* `key:${value}`
Token(key, v) == key \o <<":">> \o TemplateStr(v)

\* Parts with the error-rate token pushed before the latency token.
PartsErrFirst(e) ==
    (IF Truthy(e.ERR) THEN <<Token(S_err, e.ERR)>> ELSE << >>)
    \o (IF Truthy(e.LAT) THEN <<Token(S_lat, e.LAT)>> ELSE << >>)
    \o (IF Truthy(e.CPU) THEN <<Token(S_cpu, e.CPU)>> ELSE << >>)

\* parts after the three conditional pushes, in source order.
Parts(e) ==
    (IF Truthy(e.LAT) THEN <<Token(S_lat, e.LAT)>> ELSE << >>)
    \o (IF Truthy(e.ERR) THEN <<Token(S_err, e.ERR)>> ELSE << >>)
    \o (IF Truthy(e.CPU) THEN <<Token(S_cpu, e.CPU)>> ELSE << >>)

\* Array.prototype.join
RECURSIVE Join(_, _)
Join(parts, sep) ==
    IF parts = << >> THEN << >>
    ELSE IF Len(parts) = 1 THEN parts[1]
    ELSE parts[1] \o sep \o Join(Tail(parts), sep)

\* ChaosString with the precedence reversed: the assembled parts win over
\* CHAOS whenever any of LAT, ERR, CPU is set.
ChaosStringPartsFirst(e) ==
    LET joined == Str(Join(Parts(e), <<",">>))
    IN  IF Truthy(joined) THEN joined ELSE Or(e.CHAOS, Str(<< >>))

\* let chaos = __ENV.CHAOS || ""; if (!chaos) { ... chaos = parts.join(',') }
ChaosString(e) ==
    LET chaos == Or(e.CHAOS, Str(<< >>))
    IN  IF ~Truthy(chaos) THEN Str(Join(Parts(e), <<",">>)) ELSE chaos

\* --------------------------------------------------- encodeURIComponent
\* Printable ASCII, code 32 to 126.  The grave accent (code 96) cannot be
\* written in a string of this language; the name GRAVE stands for it.
Ascii ==
    <<" ", "!", "\"", "#", "$", "%", "&", "'", "(", ")", "*", "+", ",", "-", ".", "/",
      "0", "1", "2", "3", "4", "5", "6", "7", "8", "9", ":", ";", "<", "=", ">", "?",
      "@", "A", "B", "C", "D", "E", "F", "G", "H", "I", "J", "K", "L", "M", "N", "O",
      "P", "Q", "R", "S", "T", "U", "V", "W", "X", "Y", "Z", "[", "\\", "]", "^", "_",
      "GRAVE", "a", "b", "c", "d", "e", "f", "g", "h", "i", "j", "k", "l", "m", "n", "o",
      "p", "q", "r", "s", "t", "u", "v", "w", "x", "y", "z", "{", "|", "}", "~">>

CharCode(c) == (CHOOSE i \in 1..Len(Ascii) : Ascii[i] = c) + 31
CodeChar(n) == Ascii[n - 31]

IsAlpha(c) == (CharCode(c) \in 65..90) \/ (CharCode(c) \in 97..122)

\* uriUnescaped: letters, decimal digits and - _ . ! ~ * ' ( )
Unreserved(c) ==
    IsAlpha(c) \/ IsDigit(c) \/ c \in {"-", "_", ".", "!", "~", "*", "'", "(", ")"}

HexDigits == <<"0", "1", "2", "3", "4", "5", "6", "7", "8", "9",
               "A", "B", "C", "D", "E", "F">>

PercentEncode(c) ==
    <<"%", HexDigits[(CharCode(c) \div 16) + 1], HexDigits[(CharCode(c) % 16) + 1]>>

\* encodeURI in place of encodeURIComponent: the reserved characters
\* ; / ? : @ & = + $ , and # are left as they are.
RECURSIVE encodeURI(_)
encodeURI(s) ==
    IF s = << >> THEN << >>
    ELSE (IF Unreserved(Head(s))
             \/ Head(s) \in {";", "/", "?", ":", "@", "&", "=", "+", "$", ",", "#"}
          THEN <<Head(s)>> ELSE PercentEncode(Head(s)))
         \o encodeURI(Tail(s))

RECURSIVE encodeURIComponent(_)
encodeURIComponent(s) ==
    IF s = << >> THEN << >>
    ELSE (IF Unreserved(Head(s)) THEN <<Head(s)>> ELSE PercentEncode(Head(s)))
         \o encodeURIComponent(Tail(s))

\* ------------------------------------------------------------ fullUrl
\* FullUrl without the test of `chaos`: the parameter is always appended.
FullUrlAlwaysParam(url, chaos) ==
    Str(TemplateStr(url) \o S_chaosParam \o encodeURIComponent(chaos.s))

\* const fullUrl = chaos ? `${url}?chaos=${encodeURIComponent(chaos)}` : url
FullUrl(url, chaos) ==
    IF Truthy(chaos)
    THEN Str(TemplateStr(url) \o S_chaosParam \o encodeURIComponent(chaos.s))
    ELSE url

\* ------------------------------------------------------------- the run
VARIABLES
    env,        \* __ENV: key -> Undefined or a string
    env0,       \* the environment the run was started with (never written)
    phase,      \* "init" (module not yet loaded), "running", "done"
    elapsed,    \* whether the configured duration has elapsed
    options,    \* the exported options, once the module is loaded
    pc,         \* per virtual user: "idle", "build", "get", "wait", "sleep", "thrown"
    iter,       \* per virtual user: iterations started
    chaos,      \* per virtual user: the local `chaos`
    fullUrl,    \* per virtual user: the local `fullUrl`
    outcome,    \* per virtual user: how the http.get of this call ended, or "none"
    gets,       \* per virtual user: http.get calls made (ended or under way)
    slept,      \* per virtual user: seconds slept in sleep()
    requests    \* every (url, params) http.get was called with

vars == <<env, env0, phase, elapsed, options, pc, iter, chaos, fullUrl, outcome,
          gets, slept, requests>>

VUIds == 1..MaxVUs

\* How a call of http.get can end.  It returns a response (2xx, another
\* status, or the error of a timeout or of a failed connection), or it
\* raises: the runtime raises instead of returning the error when it runs
\* with `throw` on, which the script neither sets nor prevents.
Responses == {"ok", "non2xx", "timeout", "connerror"}
Outcomes == Responses \cup {"throw"}
Failures == Outcomes \ {"ok"}

Env(url, chaosv, lat, err, cpu, users, dur) ==
    [URL |-> url, CHAOS |-> chaosv, LAT |-> lat, ERR |-> err, CPU |-> cpu,
     USERS |-> users, DUR |-> dur]

\* The contexts the runtime schedules for options.vus, of which the model
\* tracks the first MaxVUs.  A count that is not a positive integer gives
\* the script nothing to run.
VUCount(opts) ==
    IF IsInteger(opts.vus) /\ IsPositive(opts.vus)
    THEN (IF DigitsLess(opts.vus.int, NatDigits(MaxVUs))
          THEN IntValue(opts.vus) ELSE MaxVUs)
    ELSE 0

Active == IF phase = "init" THEN {} ELSE 1..VUCount(options)

InitRun(envs) ==
    /\ env \in envs
    /\ env0 = env
    /\ phase = "init"
    /\ elapsed = FALSE
    /\ options = [vus |-> Undefined, duration |-> Undefined]
    /\ pc = [v \in VUIds |-> "idle"]
    /\ iter = [v \in VUIds |-> 0]
    /\ chaos = [v \in VUIds |-> Undefined]
    /\ fullUrl = [v \in VUIds |-> Undefined]
    /\ outcome = [v \in VUIds |-> "none"]
    /\ gets = [v \in VUIds |-> 0]
    /\ slept = [v \in VUIds |-> 0]
    /\ requests = {}

\* The module is evaluated: `options` is computed from __ENV and exported,
\* and the runtime starts options.vus virtual users on the default function.
LoadModule ==
    /\ phase = "init"
    /\ options' = Options(env)
    /\ phase' = "running"
    /\ pc' = [v \in VUIds |-> IF v <= VUCount(Options(env)) THEN "build" ELSE "idle"]
    /\ UNCHANGED <<env, env0, elapsed, iter, chaos, fullUrl, outcome, gets, slept, requests>>

\* When a virtual user is at each step of the default function.  The
\* runtime calls the function only while the run goes on, and the model
\* starts at most MaxIter calls per virtual user; a call that is under way
\* when the duration elapses may still run on to its end.
Started == phase \in {"running", "done"}
CanBuild(v) == phase = "running" /\ pc[v] = "build" /\ iter[v] < MaxIter
CanGet(v) == Started /\ pc[v] = "get"
CanEnd(v) == Started /\ pc[v] = "wait"
CanSleep(v) == Started /\ pc[v] = "sleep"
CanReenter(v) == Started /\ pc[v] = "thrown"

\* Build that also stores what it computed back into __ENV.URL.
BuildStoringUrl(v) ==
    /\ CanBuild(v)
    /\ iter' = [iter EXCEPT ![v] = @ + 1]
    /\ chaos' = [chaos EXCEPT ![v] = ChaosString(env)]
    /\ fullUrl' = [fullUrl EXCEPT ![v] = FullUrl(env.URL, ChaosString(env))]
    /\ env' = [env EXCEPT !.URL = FullUrl(env.URL, ChaosString(env))]
    /\ pc' = [pc EXCEPT ![v] = "get"]
    /\ UNCHANGED <<env0, phase, elapsed, options, outcome, gets, slept, requests>>

\* Lines 10-22 of one call of the default function: read URL, resolve the
\* chaos string, build fullUrl.
Build(v) ==
    /\ CanBuild(v)
    /\ iter' = [iter EXCEPT ![v] = @ + 1]
    /\ chaos' = [chaos EXCEPT ![v] = ChaosString(env)]
    /\ fullUrl' = [fullUrl EXCEPT ![v] = FullUrl(env.URL, ChaosString(env))]
    /\ pc' = [pc EXCEPT ![v] = "get"]
    /\ UNCHANGED <<env, env0, phase, elapsed, options, outcome, gets, slept, requests>>

\* Line 24: http.get(fullUrl, { timeout: '60s' }) is called.  The request is
\* sent and the virtual user waits for the call to end, which takes up to
\* the timeout; the other virtual users run on, and the duration may elapse.
Get(v) ==
    /\ CanGet(v)
    /\ gets' = [gets EXCEPT ![v] = @ + 1]
    /\ requests' = requests \cup {[url |-> fullUrl[v], timeout |-> S_60s]}
    /\ pc' = [pc EXCEPT ![v] = "wait"]
    /\ UNCHANGED <<env, env0, phase, elapsed, options, iter, chaos, fullUrl, outcome, slept>>

\* GetEnd whose failure aborts the whole run.
GetEndAborting(v) ==
    /\ CanEnd(v)
    /\ \E o \in Outcomes :
          /\ outcome' = [outcome EXCEPT ![v] = o]
          /\ phase' = IF o \in Failures THEN "done" ELSE phase
          /\ pc' = [pc EXCEPT ![v] = IF o = "throw" THEN "thrown" ELSE "sleep"]
    /\ UNCHANGED <<env, env0, elapsed, options, iter, chaos, fullUrl, gets, slept, requests>>

\* Line 24: the call of http.get ends.  A response is dropped and the
\* function goes on to line 27; nothing catches an exception, which ends
\* this call of the function before its sleep.
GetEnd(v) ==
    /\ CanEnd(v)
    /\ \E o \in Outcomes :
          /\ outcome' = [outcome EXCEPT ![v] = o]
          /\ pc' = [pc EXCEPT ![v] = IF o = "throw" THEN "thrown" ELSE "sleep"]
    /\ UNCHANGED <<env, env0, phase, elapsed, options, iter, chaos, fullUrl, gets, slept,
                   requests>>

\* Line 27: sleep(1), after which the call returns; the runtime calls the
\* default function again while the run goes on.
Sleep(v) ==
    /\ CanSleep(v)
    /\ slept' = [slept EXCEPT ![v] = @ + PacingSeconds]
    /\ chaos' = [chaos EXCEPT ![v] = Undefined]
    /\ fullUrl' = [fullUrl EXCEPT ![v] = Undefined]
    /\ outcome' = [outcome EXCEPT ![v] = "none"]
    /\ pc' = [pc EXCEPT ![v] = "build"]
    /\ UNCHANGED <<env, env0, phase, elapsed, options, iter, gets, requests>>

\* The call ended by an exception: the runtime records it against the
\* iteration; it calls the default function again while the run goes on.
Reenter(v) ==
    /\ CanReenter(v)
    /\ chaos' = [chaos EXCEPT ![v] = Undefined]
    /\ fullUrl' = [fullUrl EXCEPT ![v] = Undefined]
    /\ outcome' = [outcome EXCEPT ![v] = "none"]
    /\ pc' = [pc EXCEPT ![v] = "build"]
    /\ UNCHANGED <<env, env0, phase, elapsed, options, iter, gets, slept, requests>>

\* options.duration has elapsed: the runtime stops calling the function.
\* Where a call is under way is left as it is.
DurationElapsed ==
    /\ phase = "running"
    /\ phase' = "done"
    /\ elapsed' = TRUE
    /\ UNCHANGED <<env, env0, options, pc, iter, chaos, fullUrl, outcome, gets, slept, requests>>

Next ==
    \/ LoadModule
    \/ \E v \in VUIds : Build(v)
    \/ \E v \in VUIds : Get(v)
    \/ \E v \in VUIds : GetEnd(v)
    \/ \E v \in VUIds : Sleep(v)
    \/ \E v \in VUIds : Reenter(v)
    \/ DurationElapsed

\* ------------------------------------------------------- configurations
StringsUpTo(alphabet, n) == UNION {[1..k -> alphabet] : k \in 0..n}
StrsUpTo(alphabet, n) == {Str(s) : s \in StringsUpTo(alphabet, n)}

S_ping == <<"h", "t", "t", "p", ":", "/", "/", "s", "v", "c", "/", "p", "i", "n", "g">>
S_100ms == <<"1", "0", "0", "m", "s">>
S_50 == <<"5", "0">>

\* Whole runs: the URL set or missing, USERS of every kind, with and without
\* a chaos directive.
S_5s == <<"5", "s">>

\* Whole runs: the URL set or missing, USERS of every kind, with and without
\* a chaos directive; with USERS unset (150 virtual users) the chaos
\* scenario only.
RunEnvs ==
    {Env(url, Undefined, part[1], Undefined, part[2], users, Undefined) :
        url \in {Undefined, Str(S_ping)},
        part \in {<<Undefined, Undefined>>, <<Str(S_100ms), Str(S_50)>>},
        users \in {Str(<<"a">>), Str(<<"0">>), Str(<<"-", "1">>),
                   Str(<<"1">>), Str(<<"2">>)}}
    \cup
    {Env(url, Undefined, Str(S_100ms), Undefined, Str(S_50), Undefined, Undefined) :
        url \in {Undefined, Str(S_ping)}}

Init == InitRun(RunEnvs)
Spec == Init /\ [][Next]_vars

\* Chaos assembly: every choice of CHAOS, LAT, ERR and CPU among unset, empty
\* and the strings over PartAlphabet, in a run of one virtual user.
PartAlphabet == {"a", ","}
PartValues == {Undefined} \cup StrsUpTo(PartAlphabet, MaxPartLen)

AssembleEnvs ==
    {Env(Str(S_ping), c, lat, err, cpu, Str(<<"1">>), Undefined) :
        c \in PartValues, lat \in PartValues, err \in PartValues, cpu \in PartValues}

InitAssemble == InitRun(AssembleEnvs)
SpecAssemble == InitAssemble /\ [][Next]_vars

\* Request URL: CHAOS over an alphabet with unreserved characters, the two
\* separators of the directive, the escape character itself and a blank;
\* LAT/ERR/CPU unset, empty, or those of the documented scenario.
ChaosAlphabet == {"a", "Z", "~", ":", ",", "%", " "}
ChaosValues == {Undefined} \cup StrsUpTo(ChaosAlphabet, MaxChaosLen)

EncodeEnvs ==
    {Env(url, c, part[1], part[2], part[3], Str(<<"1">>), Undefined) :
        url \in {Undefined, Str(S_ping)},
        c \in ChaosValues,
        part \in {<<Undefined, Undefined, Undefined>>,
                  <<Str(<< >>), Str(<< >>), Str(<< >>)>>,
                  <<Str(S_100ms), Str(<< >>), Str(S_50)>>}}

InitEncode == InitRun(EncodeEnvs)
SpecEncode == InitEncode /\ [][Next]_vars

\* Options: USERS unset or any string of at most MaxUsersLen characters over
\* UsersAlphabet, DUR unset, empty or set.
UsersAlphabet == {"0", "1", "3", "-", "a"}
UsersValues == {Undefined} \cup StrsUpTo(UsersAlphabet, MaxUsersLen)

ConfigEnvs ==
    {Env(Str(S_ping), Undefined, Undefined, Undefined, Undefined, users, dur) :
        users \in UsersValues,
        dur \in {Undefined, Str(<< >>), Str(S_5s), Str(<<"m">>)}}

InitConfig == InitRun(ConfigEnvs)
SpecConfig == InitConfig /\ [][Next]_vars

\* ------------------------------------------------- percent-decoding
\* What the receiver of the request does with the query value: %XY becomes
\* the character with that code, every other character stands for itself.
\* A % that is not followed by two hex digits, or a code outside Ascii,
\* gives a result that no string equals.
HexVal(c) ==
    CASE IsDigit(c) -> DigitVal(c)
      [] c \in {"A", "a"} -> 10
      [] c \in {"B", "b"} -> 11
      [] c \in {"C", "c"} -> 12
      [] c \in {"D", "d"} -> 13
      [] c \in {"E", "e"} -> 14
      [] c \in {"F", "f"} -> 15
      [] OTHER -> -1

RECURSIVE PercentDecode(_)
PercentDecode(s) ==
    IF s = << >> THEN << >>
    ELSE IF Head(s) # "%" THEN <<Head(s)>> \o PercentDecode(Tail(s))
    ELSE IF Len(s) >= 3 /\ HexVal(s[2]) >= 0 /\ HexVal(s[3]) >= 0
               /\ (16 * HexVal(s[2]) + HexVal(s[3])) \in 32..126
         THEN <<CodeChar(16 * HexVal(s[2]) + HexVal(s[3]))>>
              \o PercentDecode(SubSeq(s, 4, Len(s)))
         ELSE <<"URIError">>

\* The text after the first "?chaos=" of a request URL; the whole text marked
\* as having none when there is no such parameter.
RECURSIVE QueryValue(_)
QueryValue(s) ==
    IF Len(s) < Len(S_chaosParam) THEN <<"no chaos parameter">>
    ELSE IF SubSeq(s, 1, Len(S_chaosParam)) = S_chaosParam
         THEN SubSeq(s, Len(S_chaosParam) + 1, Len(s))
         ELSE QueryValue(Tail(s))

\* A query value that needs no further escaping: unreserved characters and
\* %XY escapes only.
Escaped(q) ==
    \A i \in 1..Len(q) :
        \/ Unreserved(q[i])
        \/ /\ q[i] = "%"
           /\ i + 2 <= Len(q)
           /\ HexVal(q[i + 1]) >= 0
           /\ HexVal(q[i + 2]) >= 0

\* ---------------------------------------------------------------- claims
\* A configuration value is present when it is set to a non-empty string.
Present(v) == v # Undefined /\ v # Str(<< >>)

\* A virtual user that has built its request URL in the current iteration.
Built(v) == pc[v] \in {"get", "wait", "sleep"}

C_lat(v) == <<"l", "a", "t", ":">> \o v.s
C_err(v) == <<"e", "r", "r", ":">> \o v.s
C_cpu(v) == <<"c", "p", "u", ":">> \o v.s

\* The chaos string the eight presence cases of LAT/ERR/CPU call for.
ExpectedChaos(lat, err, cpu) ==
    CASE  Present(lat) /\  Present(err) /\  Present(cpu) ->
            C_lat(lat) \o <<",">> \o C_err(err) \o <<",">> \o C_cpu(cpu)
      []  Present(lat) /\  Present(err) /\ ~Present(cpu) ->
            C_lat(lat) \o <<",">> \o C_err(err)
      []  Present(lat) /\ ~Present(err) /\  Present(cpu) ->
            C_lat(lat) \o <<",">> \o C_cpu(cpu)
      []  Present(lat) /\ ~Present(err) /\ ~Present(cpu) -> C_lat(lat)
      [] ~Present(lat) /\  Present(err) /\  Present(cpu) ->
            C_err(err) \o <<",">> \o C_cpu(cpu)
      [] ~Present(lat) /\  Present(err) /\ ~Present(cpu) -> C_err(err)
      [] ~Present(lat) /\ ~Present(err) /\  Present(cpu) -> C_cpu(cpu)
      [] ~Present(lat) /\ ~Present(err) /\ ~Present(cpu) -> << >>

\* C1: with CHAOS unset or empty, the chaos string of every iteration is the
\* tokens lat:<LAT>, err:<ERR>, cpu:<CPU> of the present components, joined
\* by "," in that order, and empty when none is present.
C1_AssembledInFixedOrder ==
    \A v \in VUIds :
        (Built(v) /\ ~Present(env.CHAOS))
            => chaos[v] = Str(ExpectedChaos(env.LAT, env.ERR, env.CPU))

\* An iteration that assembled all three tokens, LAT holding a comma itself.
C1_Witness ==
    \E v \in VUIds :
        /\ pc[v] = "sleep"
        /\ ~Present(env.CHAOS)
        /\ env.LAT = Str(<<",">>) /\ env.ERR = Str(<<"a">>) /\ env.CPU = Str(<<"a">>)
        /\ chaos[v] = Str(<<"l", "a", "t", ":", ",", ",", "e", "r", "r", ":", "a",
                            ",", "c", "p", "u", ":", "a">>)

\* C2: with CHAOS set to a non-empty string, the chaos string of every
\* iteration is that string, whatever LAT, ERR and CPU are.
C2_ChaosVerbatim ==
    \A v \in VUIds : (Built(v) /\ Present(env.CHAOS)) => chaos[v] = env.CHAOS

\* An iteration that used CHAOS although LAT, ERR and CPU were all set.
C2_Witness ==
    \E v \in VUIds :
        /\ pc[v] = "sleep"
        /\ env.CHAOS = Str(<<",">>)
        /\ Present(env.LAT) /\ Present(env.ERR) /\ Present(env.CPU)
        /\ chaos[v] = Str(<<",">>)

\* C3: with no CHAOS and LAT, ERR, CPU all empty or unset, the chaos string
\* is empty and every request goes to the base URL as it is.
C3_NoChaosPlainUrl ==
    (~Present(env.CHAOS) /\ ~Present(env.LAT) /\ ~Present(env.ERR) /\ ~Present(env.CPU))
        => /\ \A v \in VUIds : Built(v) => (chaos[v] = Str(<< >>) /\ fullUrl[v] = env.URL)
           /\ \A r \in requests : r.url = env.URL

\* A request issued to the plain base URL, all chaos inputs empty strings.
C3_Witness ==
    /\ env.URL = Str(S_ping)
    /\ env.CHAOS = Undefined /\ env.LAT = Str(<< >>)
    /\ env.ERR = Str(<< >>) /\ env.CPU = Str(<< >>)
    /\ requests = {[url |-> Str(S_ping), timeout |-> S_60s]}

\* C4: with a non-empty chaos string, the request URL is a string; when a
\* base URL is configured it is the base URL, then "?chaos=", then the query
\* value; the query value is fully escaped, and percent-decoding it gives
\* back the chaos string.
C4_EncodedRoundTrip ==
    \A v \in VUIds :
        (Built(v) /\ Truthy(chaos[v]))
            => /\ IsStr(fullUrl[v])
               /\ IsStr(env.URL)
                    => fullUrl[v].s = env.URL.s \o S_chaosParam \o QueryValue(fullUrl[v].s)
               /\ Escaped(QueryValue(fullUrl[v].s))
               /\ PercentDecode(QueryValue(fullUrl[v].s)) = chaos[v].s

S_scenarioChaos ==
    <<"l", "a", "t", ":", "1", "0", "0", "m", "s", ",", "c", "p", "u", ":", "5", "0">>
S_scenarioTarget ==
    S_ping \o <<"?", "c", "h", "a", "o", "s", "=", "l", "a", "t", "%", "3", "A",
                "1", "0", "0", "m", "s", "%", "2", "C", "c", "p", "u", "%", "3", "A",
                "5", "0">>

\* The documented scenario: LAT=100ms, ERR empty, CPU=50 against
\* http://svc/ping, the request issued.
C4_Witness ==
    \E v \in VUIds :
        /\ pc[v] = "sleep"
        /\ chaos[v] = Str(S_scenarioChaos)
        /\ [url |-> Str(S_scenarioTarget), timeout |-> S_60s] \in requests

\* C5: a run whose URL is missing never calls http.get.
C5_NoRequestWithoutUrl ==
    env.URL = Undefined => (requests = {} /\ \A v \in VUIds : gets[v] = 0)

\* A string that denotes an integer: decimal digits, with an optional minus.
IntegerString(s) ==
    /\ s # << >>
    /\ LET d == IF Head(s) = "-" THEN Tail(s) ELSE s
       IN  d # << >> /\ \A i \in 1..Len(d) : IsDigit(d[i])

RECURSIVE Pow10(_)
Pow10(k) == IF k = 0 THEN 1 ELSE 10 * Pow10(k - 1)

DigitsValue(d) ==
    LET F[i \in 0..Len(d)] ==
            IF i = 0 THEN 0 ELSE F[i - 1] + DigitVal(d[i]) * Pow10(Len(d) - i)
    IN  F[Len(d)]

IntegerOf(s) == IF Head(s) = "-" THEN 0 - DigitsValue(Tail(s)) ELSE DigitsValue(s)

\* C6: options.vus is 150 when USERS is unset, empty or not numeric and the
\* integer USERS denotes otherwise; options.duration is "3m" when DUR is
\* unset or empty and DUR itself otherwise.
C6_OptionsResolved ==
    phase # "init"
        => /\ NumEq(options.vus,
                    IF Present(env.USERS) /\ IntegerString(env.USERS.s)
                    THEN Num(IntegerOf(env.USERS.s))
                    ELSE Num(150))
           /\ options.duration = IF Present(env.DUR) THEN env.DUR ELSE Str(<<"3", "m">>)

\* C7: a run is never started with a virtual-user count that is not a
\* positive integer.
C7_NonPositiveUsersRejected ==
    phase # "init" => (IsInteger(options.vus) /\ IsPositive(options.vus))

\* C8: every iteration is one http.get and then one second of sleep, whatever
\* the outcome: a virtual user about to call http.get has slept once for
\* each earlier call, one that waits for its call or is about to sleep has
\* made exactly one call in this iteration, and one between iterations has
\* slept once per call.  (Fails when http.get raises: the call of the
\* function ends before sleep(1).)
C8_OneGetOneSleep ==
    \A v \in VUIds :
        /\ pc[v] = "get" => (gets[v] = iter[v] - 1 /\ slept[v] = gets[v])
        /\ pc[v] \in {"wait", "sleep"} => (gets[v] = iter[v] /\ slept[v] = gets[v] - 1)
        /\ pc[v] \in {"build", "idle"} => (gets[v] = iter[v] /\ slept[v] = gets[v])

\* C9: until the duration elapses the run goes on and every virtual user
\* keeps a step to take, whatever requests have failed (a virtual user
\* between iterations that has used up the iterations the model counts is
\* left out).
C9_FailureHaltsNothing ==
    (phase # "init" /\ ~elapsed)
        => /\ phase = "running"
           /\ \A v \in Active :
                (pc[v] # "build" \/ iter[v] < MaxIter)
                    => (CanBuild(v) \/ CanGet(v) \/ CanEnd(v) \/ CanSleep(v)
                        \/ CanReenter(v))

\* Two virtual users, the run still going: the first is in its second
\* iteration after a first one that http.get ended by raising (one call, no
\* sleep), the second has just had a timeout.
C9_Witness ==
    /\ phase = "running" /\ ~elapsed
    /\ {1, 2} \subseteq Active
    /\ iter[1] = 2 /\ pc[1] = "get" /\ gets[1] = 1 /\ slept[1] = 0
    /\ outcome[2] = "timeout" /\ pc[2] = "sleep"

\* C10: no step writes the configuration, and every request of every virtual
\* user goes to the URL that the configuration of the start gives.
C10_SameTargetThroughout ==
    /\ env = env0
    /\ \A r \in requests : r.url = FullUrl(env0.URL, ChaosString(env0))
    /\ Cardinality(requests) <= 1

\* Both virtual users in their second iteration, every request so far to the
\* one URL of the chaos scenario.
C10_Witness ==
    /\ \A v \in {1, 2} : iter[v] = 2 /\ gets[v] = 2
    /\ requests = {[url |-> Str(S_scenarioTarget), timeout |-> S_60s]}

====
